---- MODULE Spec2Model ----
(***************************************************************************)
(* Model of the Smart Ambulance traffic dashboard                          *)
(* ("Traffic signal/streamlit_dashbaord.py").                              *)
(*                                                                         *)
(* Two activities share st.session_state:                                  *)
(*   - the dashboard script, executed top to bottom by Streamlit and       *)
(*     re-executed on every rerun of the session (lines 39-46, 91-95, and  *)
(*     the UI reader of lines 98-156);                                     *)
(*   - the MQTT listener thread (mqtt_thread, lines 79-88), on which paho  *)
(*     calls on_connect and on_message (lines 49-77).                      *)
(* Every statement that reads or writes st.session_state is one step, so   *)
(* that the two activities interleave as the threads do.                   *)
(*                                                                         *)
(* Python floats are written as their repr ("12.9716", "inf", "nan").      *)
(* Distances are integers in micrometres, rounded up, so that              *)
(* d <= 200.0 holds of the float exactly when the integer is <= 200000000. *)
(***************************************************************************)
EXTENDS Integers, Sequences, FiniteSets, TLC

\* ---------------------------------------------------------------- bounds
MaxThreads == 2      \* thread slots the session can hold
MaxMsgs == 2         \* MQTT messages delivered in one behaviour

\* ---------------------------------------------------------------- CONFIG
INTERSECTIONS ==
  << [name |-> "Intersection A", lat |-> "12.9716", lng |-> "77.5946"],
     [name |-> "Intersection B", lat |-> "12.975",  lng |-> "77.59"],
     [name |-> "Intersection C", lat |-> "12.968",  lng |-> "77.6"] >>

GREEN_DISTANCE_METERS == 200

Names == { INTERSECTIONS[i].name : i \in 1..Len(INTERSECTIONS) }

\* Python None, and the values json.loads produces.
None == [t |-> "null", v |-> ""]
Num(x) == [t |-> "num", v |-> x]
Str(s) == [t |-> "str", v |-> s]

\* default location (Bengaluru) until we receive messages
DefaultAmbulance ==
  [lat |-> "12.9716", lng |-> "77.5946", time |-> None, speed |-> None]

\* default red lights
DefaultLights == [n \in Names |-> "red"]

\* ------------------------------------------------------- input alphabets
\* Finite latitudes and longitudes the publisher sends.  With longitude
\* 77.59460000175483, latitude 12.973398643211837 is exactly 200.0 m from
\* Intersection A; latitude 12.973398643211839 with longitude 77.5946 is
\* 200.00000000010712 m from it.
Lats == {"12.9716", "12.973398643211837", "12.973398643211839", "12.975"}
Lngs == {"77.5946", "77.59460000175483", "77.59"}

\* lat: a float (finite, or the Infinity literal), a numeric string, a string
\* that is no number; lng: a float or null; time: an opaque string.
LatFields == { Num(x) : x \in (Lats \ {"12.975"}) \cup {"inf"} }
                \cup {Str("12.9750"), Str("abc")}
LngFields == { Num(x) : x \in Lngs } \cup {None}
TimeFields == {Str("t1")}

Field(k, S) == { <<>> } \cup { k :> x : x \in S }

\* msg.payload: bytes that are not JSON, JSON that is not an object, or a
\* JSON object with a time and any of the keys lat, lng.
Payloads ==
  { [kind |-> "invalid", data |-> <<>>], [kind |-> "nonobject", data |-> <<>>] }
  \cup { [kind |-> "object", data |-> la @@ ln @@ ti] :
           la \in Field("lat", LatFields), ln \in Field("lng", LngFields),
           ti \in Field("time", TimeFields) \ { <<>> } }

\* --------------------------------------------------------------- HELPERS
\* float(x): a float is returned as it is, a string is parsed, anything
\* else (None) raises TypeError; an unparseable string raises ValueError.
ParsedStr == ("12.9750" :> "12.975")

\* variant of Float that turns a failed conversion into nan instead of raising
FloatLenient(x) ==
  CASE x.t = "num" -> [ok |-> TRUE, val |-> x.v]
    [] x.t = "str" /\ x.v \in DOMAIN ParsedStr -> [ok |-> TRUE, val |-> ParsedStr[x.v]]
    [] OTHER -> [ok |-> TRUE, val |-> "nan"]

Float(x) ==
  CASE x.t = "num" -> [ok |-> TRUE, val |-> x.v]
    [] x.t = "str" /\ x.v \in DOMAIN ParsedStr -> [ok |-> TRUE, val |-> ParsedStr[x.v]]
    [] OTHER -> [ok |-> FALSE, val |-> ""]

\* variant of DataGet that ignores the key
DataGetDefaultOnly(data, key, default) == default

\* dict.get(key, default)
DataGet(data, key, default) == IF key \in DOMAIN data THEN data[key] ELSE default

\* haversine(lat1, lon1, lat2, lon2) of lines 27-36 evaluated in IEEE double
\* arithmetic on the finite inputs of the model, in micrometres rounded up
\* (R = 6371000 m).
HaversineUm ==
  <<"12.9716", "77.5946", "12.9716", "77.5946">> :> 0 @@
  <<"12.9716", "77.5946", "12.975", "77.59">> :> 625599294 @@
  <<"12.9716", "77.5946", "12.968", "77.6">> :> 708959422 @@
  <<"12.9716", "77.59460000175483", "12.9716", "77.5946">> :> 191 @@
  <<"12.9716", "77.59460000175483", "12.975", "77.59">> :> 625599446 @@
  <<"12.9716", "77.59460000175483", "12.968", "77.6">> :> 708959265 @@
  <<"12.9716", "77.59", "12.9716", "77.5946">> :> 498444009 @@
  <<"12.9716", "77.59", "12.975", "77.59">> :> 378062751 @@
  <<"12.9716", "77.59", "12.968", "77.6">> :> 1155158403 @@
  <<"12.973398643211837", "77.5946", "12.9716", "77.5946">> :> 200000000 @@
  <<"12.973398643211837", "77.5946", "12.975", "77.59">> :> 529289694 @@
  <<"12.973398643211837", "77.5946", "12.968", "77.6">> :> 838296893 @@
  <<"12.973398643211837", "77.59460000175483", "12.9716", "77.5946">> :> 200000000 @@
  <<"12.973398643211837", "77.59460000175483", "12.975", "77.59">> :> 529289873 @@
  <<"12.973398643211837", "77.59460000175483", "12.968", "77.6">> :> 838296760 @@
  <<"12.973398643211837", "77.59", "12.9716", "77.5946">> :> 537070417 @@
  <<"12.973398643211837", "77.59", "12.975", "77.59">> :> 178062751 @@
  <<"12.973398643211837", "77.59", "12.968", "77.6">> :> 1238750637 @@
  <<"12.973398643211839", "77.5946", "12.9716", "77.5946">> :> 200000001 @@
  <<"12.973398643211839", "77.5946", "12.975", "77.59">> :> 529289694 @@
  <<"12.973398643211839", "77.5946", "12.968", "77.6">> :> 838296893 @@
  <<"12.973398643211839", "77.59460000175483", "12.9716", "77.5946">> :> 200000001 @@
  <<"12.973398643211839", "77.59460000175483", "12.975", "77.59">> :> 529289873 @@
  <<"12.973398643211839", "77.59460000175483", "12.968", "77.6">> :> 838296760 @@
  <<"12.973398643211839", "77.59", "12.9716", "77.5946">> :> 537070417 @@
  <<"12.973398643211839", "77.59", "12.975", "77.59">> :> 178062751 @@
  <<"12.973398643211839", "77.59", "12.968", "77.6">> :> 1238750637 @@
  <<"12.975", "77.5946", "12.9716", "77.5946">> :> 378062751 @@
  <<"12.975", "77.5946", "12.975", "77.59">> :> 498437194 @@
  <<"12.975", "77.5946", "12.968", "77.6">> :> 973770289 @@
  <<"12.975", "77.59460000175483", "12.9716", "77.5946">> :> 378062751 @@
  <<"12.975", "77.59460000175483", "12.975", "77.59">> :> 498437385 @@
  <<"12.975", "77.59460000175483", "12.968", "77.6">> :> 973770175 @@
  <<"12.975", "77.59", "12.9716", "77.5946">> :> 625599294 @@
  <<"12.975", "77.59", "12.975", "77.59">> :> 0 @@
  <<"12.975", "77.59", "12.968", "77.6">> :> 1334160665

\* math.sin raises ValueError("math domain error") on an infinite argument
\* (dphi or dlambda is infinite as soon as one coordinate is); a nan
\* argument raises nothing and makes the result nan.
haversine(lat1, lon1, lat2, lon2) ==
  LET args == {lat1, lon1, lat2, lon2} IN
  CASE "inf" \in args -> [kind |-> "raise", um |-> 0]
    [] "nan" \in args -> [kind |-> "nan", um |-> 0]
    [] OTHER -> [kind |-> "num", um |-> HaversineUm[<<lat1, lon1, lat2, lon2>>]]

\* d <= GREEN_DISTANCE_METERS; every comparison with nan is False.
WithinGreen(d) == d.kind = "num" /\ d.um <= GREEN_DISTANCE_METERS * 1000000

\* variant of LightFor with a strict comparison
LightForStrict(d) ==
  IF d.kind = "num" /\ d.um < GREEN_DISTANCE_METERS * 1000000 THEN "green" ELSE "red"

\* lines 69-73
LightFor(d) == IF WithinGreen(d) THEN "green" ELSE "red"

\* ----------------------------------------------------------------- state
VARIABLES
  ss,        \* st.session_state: a dict from the keys set so far to values
  spc,       \* the dashboard script's position (line number)
  sl,        \* the dashboard script's locals
  th,        \* the listener threads: position and locals of each
  ambObj,    \* identity of the dict st.session_state.ambulance refers to
  nmsgs,     \* messages delivered so far
  expected   \* position a serial replay of the delivered messages leaves

vars == <<ss, spc, sl, th, ambObj, nmsgs, expected>>

Threads == 1..MaxThreads

NoAmb == [lat |-> "", lng |-> "", time |-> None]
Unread == [n \in Names |-> ""]

\* locals of one execution of the script
ScriptLocals ==
  [amb |-> NoAmb, obj |-> 0,          \* amb of line 104, and which dict it is
   lat |-> "", latObj |-> 0,          \* amb["lat"] as read, and from which dict
   lng |-> "", lngObj |-> 0,          \* amb["lng"] as read, and from which dict
   i |-> 1,                           \* loop index of lines 115 and 139
   quiet |-> FALSE,                   \* no listener write since line 115
   seen |-> Unread]                   \* lights read at line 116, while quiet

\* locals of one call of on_message
MessageLocals ==
  [msg |-> [kind |-> "none", data |-> <<>>],
   lat |-> "", lng |-> "", i |-> 1,
   entryAmb |-> NoAmb, entryLights |-> Unread,   \* session state at entry
   dup |-> FALSE]                                \* msg repeats the previous one

Thread(pc, loc) == [pc |-> pc, loc |-> loc]

Init ==
  /\ ss = <<>>
  /\ spc = "L39"
  /\ sl = ScriptLocals
  /\ th = [t \in Threads |-> Thread("unstarted", MessageLocals)]
  /\ ambObj = 0
  /\ nmsgs = 0
  /\ expected = [lat |-> DefaultAmbulance.lat, lng |-> DefaultAmbulance.lng]

\* ------------------------------------------------- the dashboard script
\* `if key not in st.session_state: st.session_state[key] = value`
SetDefault(s, key, value) == IF key \notin DOMAIN s THEN s @@ (key :> value) ELSE s

\* lines 39-41
InitAmbulance ==
  /\ spc = "L39"
  /\ ss' = SetDefault(ss, "ambulance", DefaultAmbulance)
  /\ spc' = "L42"
  /\ UNCHANGED <<sl, th, ambObj, nmsgs, expected>>

\* lines 42-44
InitLights ==
  /\ spc = "L42"
  /\ ss' = SetDefault(ss, "lights", DefaultLights)
  /\ spc' = "L45"
  /\ UNCHANGED <<sl, th, ambObj, nmsgs, expected>>

\* lines 45-46
InitConnected ==
  /\ spc = "L45"
  /\ ss' = SetDefault(ss, "mqtt_connected", FALSE)
  /\ spc' = "L91"
  /\ UNCHANGED <<sl, th, ambObj, nmsgs, expected>>

\* variant of NotStarted that tests mqtt_connected
NotStartedByFlag(s) == ~ s.mqtt_connected

\* line 91: the guard of the thread start
NotStarted(s) == "mqtt_thread_started" \notin DOMAIN s

Unstarted == { t \in Threads : th[t].pc = "unstarted" }

\* lines 91-95: start the listener thread once per session
StartThread ==
  /\ spc = "L91"
  /\ NotStarted(ss)
  /\ Unstarted # {}
  /\ LET t == CHOOSE u \in Unstarted : \A w \in Unstarted : u <= w IN
       th' = [th EXCEPT ![t].pc = "L84"]
  /\ ss' = IF "mqtt_thread_started" \in DOMAIN ss
           THEN [ss EXCEPT !["mqtt_thread_started"] = TRUE]
           ELSE ss @@ ("mqtt_thread_started" :> TRUE)
  /\ spc' = "L104"
  /\ UNCHANGED <<sl, ambObj, nmsgs, expected>>

\* line 91 when the thread was started by an earlier execution (or no
\* thread slot is left)
SkipStartThread ==
  /\ spc = "L91"
  /\ ~ (NotStarted(ss) /\ Unstarted # {})
  /\ spc' = "L104"
  /\ UNCHANGED <<ss, sl, th, ambObj, nmsgs, expected>>

\* line 104: amb = st.session_state.ambulance
ReadAmbulance ==
  /\ spc = "L104"
  /\ sl' = [sl EXCEPT !.amb = ss.ambulance, !.obj = ambObj]
  /\ spc' = "L105lat"
  /\ UNCHANGED <<ss, th, ambObj, nmsgs, expected>>

\* variant of ReaderAmb that subscripts st.session_state.ambulance each time
ReaderAmbShared(loc, s, cur) == [rec |-> s.ambulance, obj |-> cur]

\* the dict the reader's amb[...] subscripts of lines 105-136 go to: the
\* local bound at line 104
ReaderAmb(loc, s, cur) == [rec |-> loc.amb, obj |-> loc.obj]

\* line 105: amb["lat"]
ReadLat ==
  /\ spc = "L105lat"
  /\ LET a == ReaderAmb(sl, ss, ambObj) IN
       sl' = [sl EXCEPT !.lat = a.rec.lat, !.latObj = a.obj]
  /\ spc' = "L105lng"
  /\ UNCHANGED <<ss, th, ambObj, nmsgs, expected>>

\* line 105: amb["lng"]; lines 109-111 read the same two again
ReadLng ==
  /\ spc = "L105lng"
  /\ LET a == ReaderAmb(sl, ss, ambObj) IN
       sl' = [sl EXCEPT !.lng = a.rec.lng, !.lngObj = a.obj, !.i = 1, !.quiet = TRUE]
  /\ spc' = "L116"
  /\ UNCHANGED <<ss, th, ambObj, nmsgs, expected>>

\* lines 115-123: one iteration of the map loop
ReadLightMap ==
  /\ spc = "L116"
  /\ LET name == INTERSECTIONS[sl.i].name
         last == sl.i = Len(INTERSECTIONS) IN
       /\ sl' = [sl EXCEPT !.seen[name] = IF sl.quiet THEN ss.lights[name] ELSE "",
                           !.i = IF last THEN 1 ELSE sl.i + 1]
       /\ spc' = IF last THEN "L134" ELSE "L116"
  /\ UNCHANGED <<ss, th, ambObj, nmsgs, expected>>

\* lines 134-136: amb["lat"], amb["lng"] for the status column
ReadStatusPosition ==
  /\ spc = "L134"
  /\ LET a == ReaderAmb(sl, ss, ambObj) IN
       sl' = [sl EXCEPT !.lat = a.rec.lat, !.latObj = a.obj,
                        !.lng = a.rec.lng, !.lngObj = a.obj]
  /\ spc' = "L140"
  /\ UNCHANGED <<ss, th, ambObj, nmsgs, expected>>

\* line 140: status = st.session_state.lights[it["name"]]
StatusRead(s, loc) == s.lights[INTERSECTIONS[loc.i].name]

\* lines 139-142: one iteration of the status loop, which shows StatusRead
ReadLightStatus ==
  /\ spc = "L140"
  /\ LET name == INTERSECTIONS[sl.i].name
         last == sl.i = Len(INTERSECTIONS) IN
       /\ sl' = [sl EXCEPT !.i = IF last THEN 1 ELSE sl.i + 1]
       /\ spc' = IF last THEN "L150" ELSE "L140"
  /\ UNCHANGED <<ss, th, ambObj, nmsgs, expected>>

\* lines 150-156: the banner reads mqtt_connected; the execution ends and
\* its locals die
EndScript ==
  /\ spc = "L150"
  /\ spc' = "end"
  /\ sl' = ScriptLocals
  /\ UNCHANGED <<ss, th, ambObj, nmsgs, expected>>

\* Streamlit re-executes the script from the top within the same session
Rerun ==
  /\ spc = "end"
  /\ spc' = "L39"
  /\ UNCHANGED <<ss, sl, th, ambObj, nmsgs, expected>>

\* ------------------------------------------------- the listener thread
\* line 84 raising: mqtt_thread prints the error and returns
ConnectError(t) ==
  /\ th[t].pc = "L84"
  /\ th' = [th EXCEPT ![t].pc = "returned"]
  /\ UNCHANGED <<ss, spc, sl, ambObj, nmsgs, expected>>

\* lines 84-88: connected, loop_forever waits for the broker's answer
Connect(t) ==
  /\ th[t].pc = "L84"
  /\ th' = [th EXCEPT ![t].pc = "connack"]
  /\ UNCHANGED <<ss, spc, sl, ambObj, nmsgs, expected>>

\* lines 49-55: on_connect; only rc == 0 subscribes to the topic
on_connect(t, rc) ==
  /\ th[t].pc = "connack"
  /\ IF rc = 0
     THEN /\ ss' = [ss EXCEPT !["mqtt_connected"] = TRUE]
          /\ th' = [th EXCEPT ![t].pc = "loop"]
     ELSE /\ ss' = ss
          /\ th' = [th EXCEPT ![t].pc = "refused"]
  /\ UNCHANGED <<spc, sl, ambObj, nmsgs, expected>>

\* loop_forever connects again after a refused connection
Reconnect(t) ==
  /\ th[t].pc = "refused"
  /\ th' = [th EXCEPT ![t].pc = "connack"]
  /\ UNCHANGED <<ss, spc, sl, ambObj, nmsgs, expected>>

\* A payload is well formed when it is a JSON object whose lat and lng,
\* where present, are numbers or numeric strings.
Numeric(x) == x.t = "num" \/ (x.t = "str" /\ x.v = "12.9750")
NumberOf(x) == IF x.t = "str" THEN "12.975" ELSE x.v
WellFormed(p) ==
  /\ p.kind = "object"
  /\ \A k \in {"lat", "lng"} \cap DOMAIN p.data : Numeric(p.data[k])

\* the position after p is applied to position pos as one unit
ReplayStep(pos, p) ==
  IF WellFormed(p)
  THEN [k \in {"lat", "lng"} |->
          IF k \in DOMAIN p.data THEN NumberOf(p.data[k]) ELSE pos[k]]
  ELSE pos

\* lines 59-60: decode and json.loads raise on bytes that are not JSON
Line59(p) == IF p.kind = "invalid" THEN "L77" ELSE "L61"

\* paho calls on_message(client, userdata, msg) with the next message; lines
\* 59-60 touch nothing but the message
Deliver(t, p) ==
  /\ th[t].pc = "loop"
  /\ nmsgs < MaxMsgs
  /\ th' = [th EXCEPT ![t] = Thread(Line59(p),
              [MessageLocals EXCEPT !.msg = p, !.entryAmb = ss.ambulance,
                                    !.entryLights = ss.lights])]
  /\ nmsgs' = nmsgs + 1
  /\ expected' = ReplayStep(expected, p)
  /\ UNCHANGED <<ss, spc, sl, ambObj>>

\* variant of DefaultArg that falls back to the configured default
DefaultArgConfigured(s, key) == Num(DefaultAmbulance[key])

\* the default argument of data.get at lines 61 and 62
DefaultArg(s, key) == Num(s.ambulance[key])

\* float(data.get(key, st.session_state.ambulance[key])) of lines 61, 62;
\* data.get raises AttributeError when data is not a dict
Line61(s, msg, key) ==
  IF msg.kind # "object" THEN [ok |-> FALSE, val |-> ""]
  ELSE Float(DataGet(msg.data, key, DefaultArg(s, key)))

\* line 61
ParseLat(t) ==
  /\ th[t].pc = "L61"
  /\ LET r == Line61(ss, th[t].loc.msg, "lat") IN
       th' = [th EXCEPT ![t].pc = IF r.ok THEN "L62" ELSE "L77",
                        ![t].loc.lat = r.val]
  /\ UNCHANGED <<ss, spc, sl, ambObj, nmsgs, expected>>

\* line 62
ParseLng(t) ==
  /\ th[t].pc = "L62"
  /\ LET r == Line61(ss, th[t].loc.msg, "lng") IN
       th' = [th EXCEPT ![t].pc = IF r.ok THEN "L65" ELSE "L77",
                        ![t].loc.lng = r.val]
  /\ UNCHANGED <<ss, spc, sl, ambObj, nmsgs, expected>>

\* lines 63-65: the dict bound to st.session_state.ambulance
Line65(loc) ==
  [lat |-> loc.lat, lng |-> loc.lng, time |-> DataGet(loc.msg.data, "time", None)]

\* lines 63-65: a new dict replaces the old one in a single assignment
StoreAmbulance(t) ==
  /\ th[t].pc = "L65"
  /\ ss' = [ss EXCEPT !["ambulance"] = Line65(th[t].loc)]
  /\ ambObj' = ambObj + 1
  /\ th' = [th EXCEPT ![t].pc = "L68", ![t].loc.i = 1]
  /\ sl' = [sl EXCEPT !.quiet = FALSE, !.seen = Unread]
  /\ UNCHANGED <<spc, nmsgs, expected>>

\* variant of Line68 that measures from the position held before the message
Line68Stale(loc, inter) ==
  haversine(loc.entryAmb.lat, loc.entryAmb.lng, inter.lat, inter.lng)

\* line 68: d = haversine(lat, lng, inter["lat"], inter["lng"])
Line68(loc, inter) == haversine(loc.lat, loc.lng, inter.lat, inter.lng)

\* lines 67-73: one iteration of the lights loop; haversine raising ends
\* the call in the handler of line 76
UpdateLight(t) ==
  /\ th[t].pc = "L68"
  /\ LET loc == th[t].loc
         inter == INTERSECTIONS[loc.i]
         d == Line68(loc, inter)
         last == loc.i = Len(INTERSECTIONS) IN
       IF d.kind = "raise"
       THEN /\ th' = [th EXCEPT ![t].pc = "L77"]
            /\ UNCHANGED <<ss, sl>>
       ELSE /\ ss' = [ss EXCEPT !["lights"][inter.name] = LightFor(d)]
            /\ sl' = [sl EXCEPT !.quiet = FALSE, !.seen = Unread]
            /\ th' = [th EXCEPT ![t].pc = IF last THEN "L75" ELSE "L68",
                                ![t].loc.i = IF last THEN loc.i ELSE loc.i + 1]
  /\ UNCHANGED <<spc, ambObj, nmsgs, expected>>

\* line 75: print, and on_message returns to loop_forever
Received(t) ==
  /\ th[t].pc = "L75"
  /\ th' = [th EXCEPT ![t] = Thread("loop", MessageLocals)]
  /\ UNCHANGED <<ss, spc, sl, ambObj, nmsgs, expected>>

\* line 75, and the broker delivers the same message once more
ReceivedAndRedelivered(t) ==
  /\ th[t].pc = "L75"
  /\ nmsgs < MaxMsgs
  /\ th' = [th EXCEPT ![t] = Thread(Line59(th[t].loc.msg),
              [MessageLocals EXCEPT !.msg = th[t].loc.msg, !.entryAmb = ss.ambulance,
                                    !.entryLights = ss.lights, !.dup = TRUE])]
  /\ nmsgs' = nmsgs + 1
  /\ expected' = ReplayStep(expected, th[t].loc.msg)
  /\ UNCHANGED <<ss, spc, sl, ambObj>>

\* lines 76-77: the exception is printed and on_message returns
ErrorLogged(t) ==
  /\ th[t].pc = "L77"
  /\ th' = [th EXCEPT ![t] = Thread("loop", MessageLocals)]
  /\ UNCHANGED <<ss, spc, sl, ambObj, nmsgs, expected>>

Next ==
  \/ InitAmbulance
  \/ InitLights
  \/ InitConnected
  \/ StartThread
  \/ SkipStartThread
  \/ ReadAmbulance
  \/ ReadLat
  \/ ReadLng
  \/ ReadLightMap
  \/ ReadStatusPosition
  \/ ReadLightStatus
  \/ EndScript
  \/ Rerun
  \/ \E t \in Threads : ConnectError(t)
  \/ \E t \in Threads : Connect(t)
  \/ \E t \in Threads : \E rc \in {0, 5} : on_connect(t, rc)
  \/ \E t \in Threads : Reconnect(t)
  \/ \E t \in Threads : \E p \in Payloads : Deliver(t, p)
  \/ \E t \in Threads : ParseLat(t)
  \/ \E t \in Threads : ParseLng(t)
  \/ \E t \in Threads : StoreAmbulance(t)
  \/ \E t \in Threads : UpdateLight(t)
  \/ \E t \in Threads : Received(t)
  \/ \E t \in Threads : ReceivedAndRedelivered(t)
  \/ \E t \in Threads : ErrorLogged(t)

Spec == Init /\ [][Next]_vars

\* ------------------------------------------------------------ properties
InOnMessage(t) == th[t].pc \in {"L61", "L62", "L65", "L68", "L75", "L77"}
Stored(t) == th[t].pc \in {"L68", "L75", "L77"} /\ WellFormed(th[t].loc.msg)
Idle == \A t \in Threads : ~ InOnMessage(t)
ReaderPcs == {"L104", "L105lat", "L105lng", "L116", "L134", "L140", "L150"}
SiteA == INTERSECTIONS[1]

\* the intersection is at most GREEN_DISTANCE_METERS from the stored position
Near(inter) ==
  LET d == haversine(ss.ambulance.lat, ss.ambulance.lng, inter.lat, inter.lng) IN
    d.kind = "num" /\ d.um <= 200 * 1000000

LightsMatchPosition ==
  \A i \in 1..Len(INTERSECTIONS) :
    ss.lights[INTERSECTIONS[i].name] = IF Near(INTERSECTIONS[i]) THEN "green" ELSE "red"

\* C1: whenever the foreground reader can observe the session state, every
\* intersection's stored light is green iff the stored position is within
\* 200 m of it, and red otherwise.
C1_LightsMatchAtObservation == spc \in ReaderPcs => LightsMatchPosition

\* C2: before any message has been received, with the default position, the
\* status the dashboard shows for Intersection A is green.
C2_DefaultShowsGreenA ==
  (/\ nmsgs = 0
   /\ spc = "L140"
   /\ INTERSECTIONS[sl.i].name = SiteA.name
   /\ ss.ambulance = DefaultAmbulance)
  => StatusRead(ss, sl) = "green"

\* C3: a malformed message (not JSON, not an object, or a lat/lng that is
\* no number) never changes the stored position at any point of its
\* on_message call, never ends as received, and once its error is logged
\* the listener is back in its loop.
C3_MalformedDropped ==
  [][\A t \in Threads :
       (InOnMessage(t) /\ ~ WellFormed(th[t].loc.msg))
       => /\ ss.ambulance = th[t].loc.entryAmb
          /\ th[t].pc # "L75"
          /\ (th[t].pc = "L77" => th'[t].pc \in {"L77", "loop"})]_vars

\* a message whose lat is a new number and whose lng is null has ended in
\* the handler
C3_Witness ==
  \E t \in Threads :
    /\ th[t].pc = "L77"
    /\ th[t].loc.msg.kind = "object"
    /\ {"lat", "lng"} \subseteq DOMAIN th[t].loc.msg.data
    /\ Numeric(th[t].loc.msg.data.lat)
    /\ NumberOf(th[t].loc.msg.data.lat) # ss.ambulance.lat
    /\ th[t].loc.msg.data.lng = None

\* C4: once the reader has read latitude and longitude, both come from one
\* and the same stored dict (the one line 104 took), so the pair is a
\* position that was stored as a unit.
C4_ReaderSeesWholePosition ==
  spc \in {"L116", "L134", "L140", "L150"}
  => /\ sl.latObj = sl.lngObj
     /\ sl.lat = sl.amb.lat
     /\ sl.lng = sl.amb.lng

\* the position was replaced, latitude and longitude, between line 104 and
\* the end of the reads, while on_message is still running
C4_Witness ==
  /\ spc = "L116"
  /\ sl.obj # ambObj
  /\ sl.lat # ss.ambulance.lat
  /\ sl.lng # ss.ambulance.lng
  /\ \E t \in Threads : InOnMessage(t)

\* C5: after a well-formed message that lacks lat (lng), the stored latitude
\* (longitude) is the one held just before the message, and a coordinate the
\* message carries is the stored one.
C5_MissingKeyKeepsPrevious ==
  \A t \in Threads :
    (Stored(t) /\ {"lat", "lng"} \ DOMAIN th[t].loc.msg.data # {})
    => \A k \in {"lat", "lng"} :
         ss.ambulance[k] = IF k \in DOMAIN th[t].loc.msg.data
                           THEN NumberOf(th[t].loc.msg.data[k])
                           ELSE th[t].loc.entryAmb[k]

\* a message without lat was received while the held latitude was not the
\* default one, and it brought a new longitude
C5_Witness ==
  \E t \in Threads :
    /\ th[t].pc = "L75"
    /\ DOMAIN th[t].loc.msg.data = {"lng", "time"}
    /\ th[t].loc.entryAmb.lat # DefaultAmbulance.lat
    /\ ss.ambulance.lat = th[t].loc.entryAmb.lat
    /\ ss.ambulance.lng # th[t].loc.entryAmb.lng

\* C6: between calls of on_message the stored position is the one a serial
\* replay of the delivered messages gives (the default when none was well
\* formed), and a message with both coordinates leaves exactly its values.
C6_AppliedInDeliveryOrder ==
  /\ (Idle /\ "ambulance" \in DOMAIN ss)
     => (ss.ambulance.lat = expected.lat /\ ss.ambulance.lng = expected.lng)
  /\ \A t \in Threads :
       (Stored(t) /\ {"lat", "lng"} \subseteq DOMAIN th[t].loc.msg.data)
       => /\ ss.ambulance.lat = NumberOf(th[t].loc.msg.data.lat)
          /\ ss.ambulance.lng = NumberOf(th[t].loc.msg.data.lng)

\* two messages were delivered and the listener is idle on a position whose
\* latitude came from a numeric string
C6_Witness ==
  /\ Idle
  /\ nmsgs = 2
  /\ "ambulance" \in DOMAIN ss
  /\ ss.ambulance.lat = "12.975"
  /\ ss.ambulance.lng # DefaultAmbulance.lng

\* C7: when a message that was received is delivered again and received
\* again, position and lights are what they were after the first time; and
\* the status loop reads for each intersection what the map loop read when
\* no listener write came in between.
C7_DuplicateAndRereadIdentical ==
  /\ \A t \in Threads :
       (th[t].pc = "L75" /\ th[t].loc.dup)
       => (ss.ambulance = th[t].loc.entryAmb /\ ss.lights = th[t].loc.entryLights)
  /\ (spc = "L140" /\ sl.quiet)
     => StatusRead(ss, sl) = sl.seen[INTERSECTIONS[sl.i].name]

\* the duplicate of a message that moved the ambulance next to
\* Intersection B has been received
C7_Witness ==
  \E t \in Threads :
    /\ th[t].pc = "L75"
    /\ th[t].loc.dup
    /\ ss.ambulance.lat # DefaultAmbulance.lat
    /\ ss.lights["Intersection B"] = "green"

\* C8: when on_message has processed a message without error, the lights
\* have one entry per intersection and each is green iff its own
\* intersection is within 200 m of the stored position.
C8_LightsRecomputed ==
  \A t \in Threads :
    th[t].pc = "L75" => (DOMAIN ss.lights = Names /\ LightsMatchPosition)

\* a message put the ambulance exactly 200.0 m from Intersection A, whose
\* light was red before and is green now
C8_Witness ==
  \E t \in Threads :
    /\ th[t].pc = "L75"
    /\ ss.ambulance.lat = "12.973398643211837"
    /\ ss.ambulance.lng = "77.59460000175483"
    /\ HaversineUm[<<ss.ambulance.lat, ss.ambulance.lng, SiteA.lat, SiteA.lng>>] = 200000000
    /\ th[t].loc.entryLights[SiteA.name] = "red"
    /\ ss.lights[SiteA.name] = "green"

\* C9: whenever on_message ends in its exception handler, the stored
\* position and every light are what they were before the message.
C9_ErrorLeavesStateUnchanged ==
  \A t \in Threads :
    th[t].pc = "L77"
    => (ss.ambulance = th[t].loc.entryAmb /\ ss.lights = th[t].loc.entryLights)

\* C10: at most one listener thread is ever started, at most one call of
\* on_message runs at a time, and no step of the script changes a stored
\* position or the stored lights.
C10_OneListenerNoReset ==
  /\ [](/\ Cardinality({t \in Threads : th[t].pc # "unstarted"}) <= 1
        /\ Cardinality({t \in Threads : InOnMessage(t)}) <= 1)
  /\ [][(spc' # spc /\ {"ambulance", "lights"} \subseteq DOMAIN ss)
        => (ss'.ambulance = ss.ambulance /\ ss'.lights = ss.lights)]_vars

\* the script is executed again, at the guard of line 91, while the started
\* thread is inside on_message and the position is no longer the default
C10_Witness ==
  /\ spc = "L91"
  /\ "mqtt_thread_started" \in DOMAIN ss
  /\ ss.ambulance.lat # DefaultAmbulance.lat
  /\ ss.lights[SiteA.name] = "green"
  /\ \E t \in Threads : InOnMessage(t)
====
